---- MODULE Spec2Model ----
(***************************************************************************)
(* A model of the audio core of create-test-audio-dataset.py: the WAV      *)
(* codec (AudioFile.read_wav / AudioFile.write_wav), the buffer transforms *)
(* (resample, trim_or_pad, loop_to_length), the noise synthesizer          *)
(* (generate_noise), the SNR mixer (mix_audio_with_snr) and the loops of   *)
(* create_mixed_samples; and of write_wav_file of generate-test-audio.py.  *)
(*                                                                         *)
(* Each component is a pure function of its inputs, so each gets its own   *)
(* specification: Init draws the call's inputs from bounded sets and the   *)
(* actions run the call.  Loops that may run forever or that consume the   *)
(* random source are modelled one iteration per step.                      *)
(*                                                                         *)
(* Numbers.  Python floats are modelled by exact arithmetic on a grid:     *)
(*   - codec samples are rationals <<num, den>> in lowest terms (den > 0); *)
(*     every value the decoder produces is such a rational and the floats  *)
(*     involved (k/32768, and its product with 32767) are exact;           *)
(*   - transform samples are opaque integers (0 is the silence 0.0);       *)
(*   - noise values are integers in units of 1/NoiseUnit, products with    *)
(*     the filter's decimal coefficients rounded down to the unit;         *)
(*   - mixer samples are integers in units of 1/MixUnit;                   *)
(*   - resample's rate ratio, length and source indices are IEEE-754       *)
(*     doubles carried exactly; its interpolated samples are in the        *)
(*     mixer's unit, rounded down.                                         *)
(***************************************************************************)
EXTENDS Integers, Sequences, FiniteSets, TLC

VARIABLES
    pc,             \* position of the call: "start", "written", "looping", "generating",
                    \* "load_speech", "next_noise", "mixing", "done"
    op,             \* the operation under way
    self,           \* the AudioFile a method is called on: [sample_rate, audio_data]
    file,           \* the bytes of the WAV file on disk
    fields,         \* how the file on disk was laid out (NoFields when write_wav made it)
    result,         \* what the call returned or raised (NoResult before it ends)
    target_length,  \* argument of trim_or_pad / loop_to_length
    looped,         \* loop_to_length's accumulator
    noise_type,     \* argument of generate_noise
    duration,       \* argument of generate_noise, in ticks of 1/DurationDen seconds
    num_samples,    \* generate_noise's sample count
    noise,          \* generate_noise's output list so far
    filt,           \* generate_noise's filter state <<b0, b1, b2>>
    last,           \* generate_noise's random-walk state
    speech,         \* mix_audio_with_snr's first argument
    noise_in,       \* mix_audio_with_snr's second argument
    snr_db,         \* mix_audio_with_snr's third argument
    target_rate,    \* argument of resample
    noise_paths,    \* create_mixed_samples: the noise files still to process
    snr_levels      \* create_mixed_samples: the SNR levels still to mix

vars == <<pc, op, self, file, fields, result, target_length, looped, noise_type,
          duration, num_samples, noise, filt, last, speech, noise_in, snr_db,
          target_rate, noise_paths, snr_levels>>

codecVars == <<file, fields>>
xformVars == <<target_length, looped>>
noiseVars == <<noise_type, duration, num_samples, noise, filt, last>>
mixVars   == <<speech, noise_in, snr_db>>
resampleVars == <<target_rate>>
pipeVars  == <<noise_paths, snr_levels>>

----------------------------------------------------------------------------
(* Values shared by the components *)

NoResult == [kind |-> "none"]
NoFields == [layout |-> "none"]
NoBuffer == [sample_rate |-> 0, audio_data |-> <<>>]

\* AudioFile(sample_rate, audio_data)
AudioFile(rate, data) == [sample_rate |-> rate, audio_data |-> data]

\* A normal return of an AudioFile
Returned(a) == [kind |-> "ok", sample_rate |-> a.sample_rate, audio_data |-> a.audio_data]

\* An exception leaving the call
Raised(k, m) == [kind |-> k, msg |-> m]

Min(a, b) == IF a <= b THEN a ELSE b
Max(a, b) == IF a >= b THEN a ELSE b
Abs(a) == IF a >= 0 THEN a ELSE -a

\* Python's int(x) on the quotient a/b (b > 0): truncation toward zero
TruncDiv(a, b) == IF a >= 0 THEN a \div b ELSE -((-a) \div b)

\* seq[:n] for n >= 0
Take(seq, n) == SubSeq(seq, 1, Min(n, Len(seq)))

RECURSIVE GCD(_, _)
GCD(a, b) == IF b = 0 THEN a ELSE GCD(b, a % b)

\* The rational n/d (d > 0) in lowest terms
Rat(n, d) == LET g == GCD(Abs(n), d) IN <<n \div g, d \div g>>

RECURSIVE SeqsUpTo(_, _)
\* All sequences over S of length at most n
SeqsUpTo(S, n) ==
    IF n = 0 THEN {<<>>}
    ELSE LET shorter == SeqsUpTo(S, n - 1)
         IN shorter \cup {Append(s, x) : s \in {t \in shorter : Len(t) = n - 1}, x \in S}

----------------------------------------------------------------------------
(* The WAV container: bytes, tags, little-endian fields *)

TagRIFF == <<82, 73, 70, 70>>
TagWAVE == <<87, 65, 86, 69>>
TagFmt  == <<102, 109, 116, 32>>
TagData == <<100, 97, 116, 97>>
TagLIST == <<76, 73, 83, 84>>

\* struct.pack('<H', n), 0 <= n < 65536
pack_H(n) == <<n % 256, (n \div 256) % 256>>

\* struct.pack('<I', n), 0 <= n
pack_I(n) == <<n % 256, (n \div 256) % 256, (n \div 65536) % 256, (n \div 16777216) % 256>>

\* struct.pack('<h', v), -32768 <= v <= 32767: two's complement
pack_h(v) == pack_H((v + 65536) % 65536)

\* struct.unpack('<H', b)[0]
unpack_H(b) == b[1] + 256 * b[2]

\* struct.unpack('<I', b)[0]
unpack_I(b) == b[1] + 256 * b[2] + 65536 * b[3] + 16777216 * b[4]

\* struct.unpack('<h', b)[0]
unpack_h(b) == LET u == unpack_H(b) IN IF u >= 32768 THEN u - 65536 ELSE u

\* f.read(n) at offset pos (0-based, pos <= Len(f)): at most n bytes, fewer at the end
Read(f, pos, n) == SubSeq(f, pos + 1, Min(pos + n, Len(f)))

\* struct.unpack on fewer bytes than the format needs
StructError == Raised("struct.error", "unpack requires a buffer")

ZeroDivisionError == Raised("ZeroDivisionError", "division by zero")

ValueError(m) == Raised("ValueError", m)

----------------------------------------------------------------------------
(* AudioFile.read_wav *)

RECURSIVE FindData(_, _)
\* The "Find data subchunk" loop, entered with the file position at pos
FindData(f, pos) ==
    LET chunk_id == Read(f, pos, 4)
    IN  IF chunk_id = <<>>
        THEN [kind |-> "raise", err |-> ValueError("data subchunk not found")]
        ELSE LET szpos == pos + Len(chunk_id)
                 szbytes == Read(f, szpos, 4)
             IN  IF Len(szbytes) < 4
                 THEN [kind |-> "raise", err |-> StructError]
                 ELSE IF chunk_id = TagData
                      THEN [kind |-> "found", chunk_size |-> unpack_I(szbytes),
                            pos |-> szpos + 4]
                      ELSE FindData(f, Min(szpos + 4 + unpack_I(szbytes), Len(f)))

RECURSIVE FrameSum(_, _, _)
\* sample_sum of one frame, as a numerator over 32768: the frame's channels
\* are the c two-byte values that start at offset pos
FrameSum(f, pos, c) ==
    IF c = 0 THEN 0
    ELSE unpack_h(Read(f, pos + 2 * (c - 1), 2)) + FrameSum(f, pos, c - 1)

\* The "Read audio data" part, with the file position at pos just after the
\* data chunk's size field
ReadAudioData(f, pos, chunk_size, num_channels, bits_per_sample, sample_rate) ==
    IF bits_per_sample \div 8 = 0 \/ num_channels = 0
    THEN ZeroDivisionError
    ELSE LET n == (chunk_size \div (bits_per_sample \div 8)) \div num_channels
         IN  IF bits_per_sample = 16
             THEN IF Len(f) - pos < 2 * n * num_channels
                  THEN StructError
                  ELSE Returned(AudioFile(sample_rate,
                         [i \in 1..n |->
                            Rat(FrameSum(f, pos + 2 * num_channels * (i - 1), num_channels),
                                32768 * num_channels)]))
             ELSE ValueError("Unsupported bits per sample")

\* AudioFile.read_wav(filename), f the bytes of the file
read_wav(f) ==
    IF Read(f, 0, 4) # TagRIFF THEN ValueError("Not a valid WAV file")
    ELSE IF Len(f) < 8 THEN StructError
    ELSE IF Read(f, 8, 4) # TagWAVE THEN ValueError("Not a valid WAV file")
    ELSE IF Read(f, 12, 4) # TagFmt THEN ValueError("fmt subchunk not found")
    ELSE IF Len(f) < 36 THEN StructError
    ELSE LET fmt_size        == unpack_I(Read(f, 16, 4))
             num_channels    == unpack_H(Read(f, 22, 2))
             sample_rate     == unpack_I(Read(f, 24, 4))
             bits_per_sample == unpack_H(Read(f, 34, 2))
             after_fmt == IF fmt_size > 16 THEN Min(36 + (fmt_size - 16), Len(f)) ELSE 36
             found == FindData(f, after_fmt)
         IN  IF found.kind = "raise" THEN found.err
             ELSE ReadAudioData(f, found.pos, found.chunk_size, num_channels,
                                bits_per_sample, sample_rate)

----------------------------------------------------------------------------
(* AudioFile.write_wav *)

\* max(-1.0, min(1.0, sample)) on a rational
ClampSample(sample) ==
    IF sample[1] > sample[2] THEN <<1, 1>>
    ELSE IF sample[1] < -sample[2] THEN <<-1, 1>>
    ELSE sample

\* The conversion scaled by 32768 instead of 32767
PcmValueFullScale(sample) ==
    LET c == ClampSample(sample) IN TruncDiv(c[1] * 32768, c[2])

\* int(sample * 32767) of the clamped sample
PcmValue(sample) ==
    LET c == ClampSample(sample) IN TruncDiv(c[1] * 32767, c[2])

RECURSIVE PackPcm(_)
\* The bytes of "for pcm_value in pcm_data: f.write(struct.pack('<h', pcm_value))"
PackPcm(data) ==
    IF data = <<>> THEN <<>>
    ELSE pack_h(PcmValue(Head(data))) \o PackPcm(Tail(data))

\* AudioFile.write_wav(filename): the bytes written
write_wav(a) ==
    LET n_samples       == Len(a.audio_data)
        num_channels    == 1
        bits_per_sample == 16
        byte_rate   == (a.sample_rate * num_channels * bits_per_sample) \div 8
        block_align == (num_channels * bits_per_sample) \div 8
        data_size   == n_samples * block_align
    IN  TagRIFF \o pack_I(36 + data_size) \o TagWAVE
        \o TagFmt \o pack_I(16) \o pack_H(1) \o pack_H(num_channels)
        \o pack_I(a.sample_rate) \o pack_I(byte_rate)
        \o pack_H(block_align) \o pack_H(bits_per_sample)
        \o TagData \o pack_I(data_size)
        \o PackPcm(a.audio_data)

----------------------------------------------------------------------------
(* write_wav_file of generate-test-audio.py *)

RECURSIVE PackShorts(_)
\* 16-bit little-endian values, one after the other
PackShorts(values) ==
    IF values = <<>> THEN <<>>
    ELSE pack_h(Head(values)) \o PackShorts(Tail(values))

\* "sample = max(-1.0, min(1.0, sample)); pcm_value = int(sample * 32767)"
pcm_value(sample) ==
    LET clamped == IF sample[1] > sample[2] THEN <<1, 1>>
                   ELSE IF sample[1] < -sample[2] THEN <<-1, 1>>
                   ELSE sample
    IN  TruncDiv(clamped[1] * 32767, clamped[2])

\* pcm_data: the converted samples, in order
pcm_data(audio_data) == [i \in 1..Len(audio_data) |-> pcm_value(audio_data[i])]

\* write_wav_file(filename, sample_rate, audio_data): the bytes written
write_wav_file(sample_rate, audio_data) ==
    LET n_samples       == Len(audio_data)
        num_channels    == 1
        bits_per_sample == 16
        byte_rate   == (sample_rate * num_channels * bits_per_sample) \div 8
        block_align == (num_channels * bits_per_sample) \div 8
        data_size   == n_samples * block_align
    IN  TagRIFF \o pack_I(36 + data_size) \o TagWAVE
        \o TagFmt \o pack_I(16) \o pack_H(1) \o pack_H(num_channels)
        \o pack_I(sample_rate) \o pack_I(byte_rate)
        \o pack_H(block_align) \o pack_H(bits_per_sample)
        \o TagData \o pack_I(data_size)
        \o PackShorts(pcm_data(audio_data))

----------------------------------------------------------------------------
(* The codec's calls: a buffer written and read back, or a file found on disk *)

\* Bounds of the codec's inputs
MaxCodecSamples == 2
MaxChunks == 2

\* Sample values of the buffers handed to write_wav: points of the 16-bit grid
\* k/32768, and two values outside [-1.0, 1.0]
GridNumerators == {-32768, -16384, -1, 0, 1, 32767}
GridSamples == {Rat(k, 32768) : k \in GridNumerators}
CodecSamples == GridSamples \cup {<<3, 2>>, <<-2, 1>>}
CodecRates == {8000, 44100}

\* A chunk as laid out in a file: tag, little-endian size, payload
Chunk(tag, payload) == tag \o pack_I(Len(payload)) \o payload

RECURSIVE Chunks(_)
\* n metadata chunks ("LIST", two bytes of payload each)
Chunks(n) == IF n = 0 THEN <<>> ELSE Chunk(TagLIST, <<7, 9>>) \o Chunks(n - 1)

\* The whole file a layout describes, before it is cut short
LayoutBytes(fl) ==
    LET body == fl.wave
                \o fl.fmt \o pack_I(fl.fmt_size) \o pack_H(fl.audio_format)
                \o pack_H(fl.num_channels) \o pack_I(fl.sample_rate)
                \o pack_I(fl.sample_rate * 2) \o pack_H(2) \o pack_H(fl.bits_per_sample)
                \o [i \in 1..(fl.fmt_size - 16) |-> 0]
                \o Chunks(fl.chunks)
                \o (IF fl.has_data THEN Chunk(TagData, PackShorts(fl.pcm)) ELSE <<>>)
    IN  fl.riff \o pack_I(Len(body)) \o body

\* The file on disk: the layout's bytes up to the cut
LayoutFile(fl) == Take(LayoutBytes(fl), fl.cut)

\* Files with every tag in place: the fmt fields, the chunks before the data
\* chunk and the data vary
WellTagged ==
    [layout : {"crafted"}, riff : {TagRIFF}, wave : {TagWAVE}, fmt : {TagFmt},
     fmt_size : {16, 18}, audio_format : {1, 3}, num_channels : {0, 1, 2},
     sample_rate : {8000}, bits_per_sample : {0, 4, 8, 16, 24, 32},
     chunks : 0..MaxChunks, has_data : BOOLEAN,
     pcm : {<<>>, <<1, -2>>}, cut : {0}]

\* Files with one tag wrong
BadTagged ==
    [layout : {"crafted"}, riff : {TagRIFF, TagLIST}, wave : {TagWAVE, TagLIST},
     fmt : {TagFmt, TagLIST},
     fmt_size : {16}, audio_format : {1}, num_channels : {1},
     sample_rate : {8000}, bits_per_sample : {16},
     chunks : {0}, has_data : {TRUE},
     pcm : {<<1, -2>>}, cut : {0}]

InitCodec ==
    /\ \/ /\ op = "round_trip"
          /\ pc = "start"
          /\ self \in {AudioFile(r, d) : r \in CodecRates,
                                         d \in SeqsUpTo(CodecSamples, MaxCodecSamples)}
          /\ file = <<>>
          /\ fields = NoFields
       \* write_wav_file's arguments sample_rate and audio_data, held in self
       \/ /\ op = "write_wav_file"
          /\ pc = "start"
          /\ self \in {AudioFile(r, d) : r \in CodecRates,
                                         d \in SeqsUpTo(CodecSamples, MaxCodecSamples)}
          /\ file = <<>>
          /\ fields = NoFields
       \/ /\ op = "read_wav"
          /\ pc = "written"
          /\ self = NoBuffer
          \* every layout, whole or cut short at any byte
          /\ \E fl \in WellTagged \cup BadTagged :
                \E c \in 0..Len(LayoutBytes(fl)) : fields = [fl EXCEPT !.cut = c]
          /\ file = LayoutFile(fields)
    /\ result = NoResult
    /\ target_length = 0 /\ looped = <<>>
    /\ noise_type = "none" /\ duration = 0 /\ num_samples = 0
    /\ noise = <<>> /\ filt = <<0, 0, 0>> /\ last = 0
    /\ speech = NoBuffer /\ noise_in = NoBuffer /\ snr_db = 0
    /\ target_rate = 0
    /\ noise_paths = <<>> /\ snr_levels = <<>>

\* self.write_wav(path)
WriteWav ==
    /\ pc = "start" /\ op = "round_trip"
    /\ file' = write_wav(self)
    /\ pc' = "written"
    /\ UNCHANGED <<op, self, fields, result, xformVars, noiseVars, mixVars, resampleVars, pipeVars>>

\* write_wav_file(path, sample_rate, audio_data)
WriteWavFile ==
    /\ pc = "start" /\ op = "write_wav_file"
    /\ file' = write_wav_file(self.sample_rate, self.audio_data)
    /\ pc' = "written"
    /\ UNCHANGED <<op, self, fields, result, xformVars, noiseVars, mixVars, resampleVars, pipeVars>>

\* AudioFile.read_wav(path)
ReadWav ==
    /\ pc = "written" /\ op \in {"round_trip", "write_wav_file", "read_wav"}
    /\ result' = read_wav(file)
    /\ pc' = "done"
    /\ UNCHANGED <<op, self, codecVars, xformVars, noiseVars, mixVars, resampleVars, pipeVars>>

NextCodec == WriteWav \/ WriteWavFile \/ ReadWav

SpecCodec == InitCodec /\ [][NextCodec]_vars

----------------------------------------------------------------------------
(* AudioFile.trim_or_pad and AudioFile.loop_to_length *)

\* Bounds of the transforms' inputs
MaxXformLen == 3
MaxTarget == 7

XformSamples == {0, 1, 2}
XformRates == {8000, 44100}

\* [0.0] * n
Zeros(n) == [i \in 1..n |-> 0]

\* self.trim_or_pad(target_length)
trim_or_pad(a, n) ==
    IF Len(a.audio_data) = n THEN a
    ELSE IF Len(a.audio_data) > n THEN AudioFile(a.sample_rate, Take(a.audio_data, n))
    ELSE AudioFile(a.sample_rate, a.audio_data \o Zeros(n - Len(a.audio_data)))

\* The loop's body without the slice: the whole buffer is appended each time
LoopExtendUnsliced(acc, data, n) == acc \o data

\* One pass of loop_to_length's while loop:
\*   remaining = target_length - len(looped); looped.extend(self.audio_data[:remaining])
LoopExtend(acc, data, n) == acc \o Take(data, n - Len(acc))

InitXform ==
    /\ op \in {"trim_or_pad", "loop_to_length"}
    /\ pc = "start"
    /\ self \in {AudioFile(r, d) : r \in XformRates, d \in SeqsUpTo(XformSamples, MaxXformLen)}
    /\ target_length \in 0..MaxTarget
    /\ looped = <<>>
    /\ file = <<>> /\ fields = NoFields
    /\ result = NoResult
    /\ noise_type = "none" /\ duration = 0 /\ num_samples = 0
    /\ noise = <<>> /\ filt = <<0, 0, 0>> /\ last = 0
    /\ speech = NoBuffer /\ noise_in = NoBuffer /\ snr_db = 0
    /\ target_rate = 0
    /\ noise_paths = <<>> /\ snr_levels = <<>>

\* self.trim_or_pad(target_length)
TrimOrPad ==
    /\ pc = "start" /\ op = "trim_or_pad"
    /\ result' = Returned(trim_or_pad(self, target_length))
    /\ pc' = "done"
    /\ UNCHANGED <<op, self, codecVars, xformVars, noiseVars, mixVars, resampleVars, pipeVars>>

\* loop_to_length up to its while loop: the early return, or looped = []
LoopEnter ==
    /\ pc = "start" /\ op = "loop_to_length"
    /\ IF Len(self.audio_data) >= target_length
       THEN /\ result' = Returned(AudioFile(self.sample_rate,
                                            Take(self.audio_data, target_length)))
            /\ pc' = "done"
            /\ UNCHANGED looped
       ELSE /\ looped' = <<>>
            /\ pc' = "looping"
            /\ UNCHANGED result
    /\ UNCHANGED <<op, self, codecVars, target_length, noiseVars, mixVars, resampleVars, pipeVars>>

\* One iteration of "while len(looped) < target_length"
LoopIterate ==
    /\ pc = "looping"
    /\ Len(looped) < target_length
    /\ looped' = LoopExtend(looped, self.audio_data, target_length)
    /\ UNCHANGED <<pc, op, self, codecVars, result, target_length, noiseVars, mixVars, resampleVars, pipeVars>>

\* The loop's exit and "return AudioFile(self.sample_rate, looped)"
LoopReturn ==
    /\ pc = "looping"
    /\ ~(Len(looped) < target_length)
    /\ result' = Returned(AudioFile(self.sample_rate, looped))
    /\ pc' = "done"
    /\ UNCHANGED <<op, self, codecVars, xformVars, noiseVars, mixVars, resampleVars, pipeVars>>

NextXform == TrimOrPad \/ LoopEnter \/ LoopIterate \/ LoopReturn

SpecXform == InitXform /\ [][NextXform]_vars

----------------------------------------------------------------------------
(* generate_noise *)

SAMPLE_RATE == 44100

\* Noise values are integers in units of 1/NoiseUnit
NoiseUnit == 10000000

\* Durations are given in ticks of 1/DurationDen seconds: a quarter of a
\* sample period, so that SAMPLE_RATE * duration takes fractional values
DurationDen == 176400

\* Bound of the durations tried: just under eight samples
MaxDurationTicks == 31

NoiseTypes == {"white", "pink", "brown", "violet"}

\* Values drawn from random.uniform(-1.0, 1.0): the ends and the middle
WhiteDraws == {-NoiseUnit, 0, NoiseUnit}

\* Values drawn from random.uniform(-0.02, 0.02): the ends and the middle
BrownDraws == {-(NoiseUnit \div 50), 0, NoiseUnit \div 50}

\* x * (num / den) rounded down to the unit, den > 0, computed without
\* leaving 32 bits
MulDec(x, num, den) == (x \div den) * num + ((x % den) * num) \div den

\* The sample count with the product rounded to the nearest integer
\* (Python's round: halves go to the even neighbour)
NumSamplesRounded(d) ==
    LET q == (SAMPLE_RATE * d) \div DurationDen
        r == (SAMPLE_RATE * d) % DurationDen
    IN  IF 2 * r < DurationDen THEN q
        ELSE IF 2 * r > DurationDen THEN q + 1
        ELSE IF q % 2 = 0 THEN q ELSE q + 1

\* num_samples = int(SAMPLE_RATE * duration), duration = d / DurationDen >= 0
NumSamples(d) == TruncDiv(SAMPLE_RATE * d, DurationDen)

\* The pink filter's state after one more white value:
\*   b0 = 0.99765 * b0 + white * 0.0990460
\*   b1 = 0.96300 * b1 + white * 0.2965164
\*   b2 = 0.57000 * b2 + white * 1.0526913
PinkFilter(b, white) ==
    << MulDec(b[1], 19953, 20000) + MulDec(white,   990460, 10000000),
       MulDec(b[2],   963,  1000) + MulDec(white,  2965164, 10000000),
       MulDec(b[3],    57,   100) + MulDec(white, 10526913, 10000000) >>

\* pink = b0 + b1 + b2 + white * 0.1848, and the value appended: pink / 5.0
PinkSample(b, white) ==
    TruncDiv(b[1] + b[2] + b[3] + MulDec(white, 1848, 10000), 5)

\* last = max(-1.0, min(1.0, last + white))
BrownStep(prev, white) == Max(-NoiseUnit, Min(NoiseUnit, prev + white))

InitNoise ==
    /\ op = "generate_noise"
    /\ pc = "start"
    /\ noise_type \in NoiseTypes
    /\ duration \in 0..MaxDurationTicks
    /\ num_samples = 0
    /\ noise = <<>> /\ filt = <<0, 0, 0>> /\ last = 0
    /\ self = NoBuffer
    /\ file = <<>> /\ fields = NoFields
    /\ result = NoResult
    /\ target_length = 0 /\ looped = <<>>
    /\ speech = NoBuffer /\ noise_in = NoBuffer /\ snr_db = 0
    /\ target_rate = 0
    /\ noise_paths = <<>> /\ snr_levels = <<>>

\* generate_noise up to its loops: the sample count, the branch on noise_type
GenerateEnter ==
    /\ pc = "start" /\ op = "generate_noise"
    /\ num_samples' = NumSamples(duration)
    /\ IF noise_type \in {"white", "pink", "brown"}
       THEN /\ pc' = "generating"
            /\ noise' = <<>> /\ filt' = <<0, 0, 0>> /\ last' = 0
            /\ UNCHANGED result
       ELSE /\ result' = ValueError("Unknown noise type")
            /\ pc' = "done"
            /\ UNCHANGED <<noise, filt, last>>
    /\ UNCHANGED <<op, self, codecVars, xformVars, noise_type, duration, mixVars, resampleVars, pipeVars>>

\* One element of the white list comprehension
GenerateWhite ==
    /\ pc = "generating" /\ noise_type = "white"
    /\ Len(noise) < num_samples
    /\ \E white \in WhiteDraws : noise' = Append(noise, white)
    /\ UNCHANGED <<pc, op, self, codecVars, result, xformVars, noise_type, duration,
                   num_samples, filt, last, mixVars, resampleVars, pipeVars>>

\* One iteration of the pink loop
GeneratePink ==
    /\ pc = "generating" /\ noise_type = "pink"
    /\ Len(noise) < num_samples
    /\ \E white \in WhiteDraws :
          /\ filt' = PinkFilter(filt, white)
          /\ noise' = Append(noise, PinkSample(filt', white))
    /\ UNCHANGED <<pc, op, self, codecVars, result, xformVars, noise_type, duration,
                   num_samples, last, mixVars, resampleVars, pipeVars>>

\* One iteration of the brown loop
GenerateBrown ==
    /\ pc = "generating" /\ noise_type = "brown"
    /\ Len(noise) < num_samples
    /\ \E white \in BrownDraws :
          /\ last' = BrownStep(last, white)
          /\ noise' = Append(noise, last')
    /\ UNCHANGED <<pc, op, self, codecVars, result, xformVars, noise_type, duration,
                   num_samples, filt, mixVars, resampleVars, pipeVars>>

\* return AudioFile(SAMPLE_RATE, noise)
GenerateReturn ==
    /\ pc = "generating"
    /\ ~(Len(noise) < num_samples)
    /\ result' = Returned(AudioFile(SAMPLE_RATE, noise))
    /\ pc' = "done"
    /\ UNCHANGED <<op, self, codecVars, xformVars, noiseVars, mixVars, resampleVars, pipeVars>>

NextNoise ==
    GenerateEnter \/ GenerateWhite \/ GeneratePink \/ GenerateBrown \/ GenerateReturn

SpecNoise == InitNoise /\ [][NextNoise]_vars

----------------------------------------------------------------------------
(* mix_audio_with_snr *)

\* Mixer samples, RMS values and factors are integers in units of 1/MixUnit
MixUnit == 1000

\* Bound of the mixer's buffers
MaxMixLen == 2

MixSamples == {-MixUnit, 0, MixUnit \div 2, MixUnit}

\* The SNR levels tried: SNR_LEVELS and one negative level
SnrLevels == {-20, 0, 5, 10, 15, 20}

RECURSIVE SumSquares(_)
\* sum(s*s for s in data)
SumSquares(data) ==
    IF data = <<>> THEN 0 ELSE Head(data) * Head(data) + SumSquares(Tail(data))

RECURSIVE SqrtBetween(_, _, _)
\* The largest r in lo..hi with r * r <= x (lo * lo <= x)
SqrtBetween(x, lo, hi) ==
    IF lo = hi THEN lo
    ELSE LET mid == (lo + hi + 1) \div 2
         IN  IF mid * mid <= x THEN SqrtBetween(x, mid, hi) ELSE SqrtBetween(x, lo, mid - 1)

\* math.sqrt(x), rounded down to the unit, for 0 <= x <= 4 * MixUnit^2
Sqrt(x) == SqrtBetween(x, 0, 2 * MixUnit)

\* math.sqrt(sum(s*s for s in data) / len(data)), len(data) > 0
Rms(data) == Sqrt(SumSquares(data) \div Len(data))

\* snr_linear = 10 ** (snr_db / 20), to three decimals
SnrLinear(db) ==
    CASE db = -20 -> 100
      [] db = 0   -> 1000
      [] db = 5   -> 1778
      [] db = 10  -> 3162
      [] db = 15  -> 5623
      [] db = 20  -> 10000

\* noise_scale = speech_rms / (noise_rms * snr_linear) if noise_rms > 0 else 0
NoiseScale(speech_rms, noise_rms, snr_linear) ==
    IF noise_rms > 0
    THEN (speech_rms * MixUnit * MixUnit) \div (noise_rms * snr_linear)
    ELSE 0

\* A clip that limits only from above
ClipUpperOnly(x) == Min(MixUnit, x)

\* max(-1.0, min(1.0, mixed_sample))
Clip(x) == Max(-MixUnit, Min(MixUnit, x))

\* mixed_sample = speech.audio_data[i] + noise.audio_data[i] * noise_scale
MixedSample(s, n, noise_scale) == s + TruncDiv(n * noise_scale, MixUnit)

IndexError == Raised("IndexError", "list index out of range")

\* mix_audio_with_snr(speech, noise, snr_db): what it returns or raises
mix_audio_with_snr(sp, nz, db) ==
    IF Len(sp.audio_data) = 0 \/ Len(nz.audio_data) = 0
    THEN ZeroDivisionError
    ELSE LET speech_rms  == Rms(sp.audio_data)
             noise_rms   == Rms(nz.audio_data)
             noise_scale == NoiseScale(speech_rms, noise_rms, SnrLinear(db))
         IN  IF Len(nz.audio_data) < Len(sp.audio_data)
             THEN IndexError
             ELSE Returned(AudioFile(sp.sample_rate,
                    [i \in 1..Len(sp.audio_data) |->
                       Clip(MixedSample(sp.audio_data[i], nz.audio_data[i], noise_scale))]))

InitMix ==
    /\ op = "mix_audio_with_snr"
    /\ pc = "start"
    /\ speech \in {AudioFile(SAMPLE_RATE, d) : d \in SeqsUpTo(MixSamples, MaxMixLen)}
    /\ noise_in \in {AudioFile(SAMPLE_RATE, d) : d \in SeqsUpTo(MixSamples, MaxMixLen)}
    /\ snr_db \in SnrLevels
    /\ self = NoBuffer
    /\ file = <<>> /\ fields = NoFields
    /\ result = NoResult
    /\ target_length = 0 /\ looped = <<>>
    /\ noise_type = "none" /\ duration = 0 /\ num_samples = 0
    /\ noise = <<>> /\ filt = <<0, 0, 0>> /\ last = 0
    /\ target_rate = 0
    /\ noise_paths = <<>> /\ snr_levels = <<>>

\* mixed = mix_audio_with_snr(speech, noise, snr_db)
Mix ==
    /\ pc = "start" /\ op = "mix_audio_with_snr"
    /\ result' = mix_audio_with_snr(speech, noise_in, snr_db)
    /\ pc' = "done"
    /\ UNCHANGED <<op, self, codecVars, xformVars, noiseVars, mixVars, resampleVars, pipeVars>>

NextMix == Mix

SpecMix == InitMix /\ [][NextMix]_vars

----------------------------------------------------------------------------
(* Python floats, for AudioFile.resample: IEEE-754 binary64 values m * 2^e  *)
(* with the significand m held exactly as a number in base LimbBase, least  *)
(* significant limb first and no leading zero limb (<<>> is 0).  Only the   *)
(* operations resample performs on non-negative values are modelled, each   *)
(* rounded to nearest, ties to even, as the hardware does.                  *)

LimbBase == 32768
LimbBits == 15
DoubleBits == 53

RECURSIVE Pow2(_)
Pow2(n) == IF n = 0 THEN 1 ELSE 2 * Pow2(n - 1)

RECURSIVE BitLen(_)
\* Number of bits of n >= 0 (0 for 0)
BitLen(n) == IF n = 0 THEN 0 ELSE 1 + BitLen(n \div 2)

RECURSIVE BigOf(_)
\* The limbs of the integer n >= 0
BigOf(n) == IF n = 0 THEN <<>> ELSE <<n % LimbBase>> \o BigOf(n \div LimbBase)

RECURSIVE BigToInt(_)
\* The integer of the limbs
BigToInt(a) == IF a = <<>> THEN 0 ELSE Head(a) + LimbBase * BigToInt(Tail(a))

RECURSIVE BigStrip(_)
\* Without leading zero limbs
BigStrip(a) ==
    IF a # <<>> /\ a[Len(a)] = 0 THEN BigStrip(SubSeq(a, 1, Len(a) - 1)) ELSE a

BigBitLen(a) ==
    IF a = <<>> THEN 0 ELSE LimbBits * (Len(a) - 1) + BitLen(a[Len(a)])

RECURSIVE BigTimes(_, _, _)
\* a * k + carry, for 0 <= k < 2 * LimbBase and 0 <= carry < 2 * LimbBase
BigTimes(a, k, carry) ==
    IF a = <<>> THEN BigOf(carry)
    ELSE LET cur == Head(a) * k + carry
         IN  <<cur % LimbBase>> \o BigTimes(Tail(a), k, cur \div LimbBase)

\* a * 2^j
BigShl(a, j) ==
    IF a = <<>> THEN <<>>
    ELSE [i \in 1..(j \div LimbBits) |-> 0]
         \o BigStrip(BigTimes(a, Pow2(j % LimbBits), 0))

\* floor(a / 2^j)
BigShr(a, j) ==
    LET whole == j \div LimbBits
        part  == Pow2(j % LimbBits)
        rest  == IF whole >= Len(a) THEN <<>> ELSE SubSeq(a, whole + 1, Len(a))
    IN  BigStrip([i \in 1..Len(rest) |->
                    (rest[i] \div part)
                    + (IF i < Len(rest) THEN (rest[i + 1] % part) * (LimbBase \div part)
                                        ELSE 0)])

\* Bit j (from 0) of a
BigBit(a, j) ==
    LET at == (j \div LimbBits) + 1
    IN  IF at > Len(a) THEN 0 ELSE (a[at] \div Pow2(j % LimbBits)) % 2

\* The low j bits of a are all zero
BigLowZero(a, j) == a = BigShl(BigShr(a, j), j)

RECURSIVE BigGeqFrom(_, _, _)
\* a >= b for numbers of the same length, compared from limb i downwards
BigGeqFrom(a, b, i) ==
    IF i = 0 THEN TRUE
    ELSE IF a[i] # b[i] THEN a[i] > b[i]
    ELSE BigGeqFrom(a, b, i - 1)

\* a >= b
BigGeq(a, b) ==
    IF Len(a) # Len(b) THEN Len(a) > Len(b) ELSE BigGeqFrom(a, b, Len(a))

RECURSIVE BigMinusFrom(_, _, _)
\* The limbs of a - b - borrow (a >= b + borrow), unstripped
BigMinusFrom(a, b, borrow) ==
    IF a = <<>> THEN <<>>
    ELSE LET sub == (IF b = <<>> THEN 0 ELSE Head(b)) + borrow
             low == Head(a) - sub
         IN  <<(low + LimbBase) % LimbBase>>
             \o BigMinusFrom(Tail(a), IF b = <<>> THEN <<>> ELSE Tail(b),
                             IF low < 0 THEN 1 ELSE 0)

\* a - b, for a >= b
BigMinus(a, b) == BigStrip(BigMinusFrom(a, b, 0))

\* The float of value m * 2^e
Float(m, e) == [m |-> m, e |-> e]

\* float(n) of an integer 0 <= n < 2^31: exact
FloatOf(n) == Float(BigOf(n), 0)

\* q * 2^e, plus a non-zero amount below q's last bit when sticky, rounded to
\* DoubleBits significant bits, to nearest and ties to even
RoundToDouble(q, e, sticky) ==
    LET drop == BigBitLen(q) - DoubleBits
    IN  IF drop <= 0 THEN Float(q, e)
        ELSE LET kept == BigShr(q, drop)
                 half == BigBit(q, drop - 1) = 1
                 rest == sticky \/ ~BigLowZero(q, drop - 1)
                 up   == half /\ (rest \/ BigBit(kept, 0) = 1)
             IN  Float(IF up THEN BigTimes(kept, 1, 1) ELSE kept, e + drop)

RECURSIVE LongDiv(_, _, _)
\* Binary long division: q the quotient bits found so far and r < d the
\* remainder, continued until q has DoubleBits + 2 bits; the result is
\* <<quotient, remainder>>
LongDiv(r, d, q) ==
    IF BigBitLen(q) >= DoubleBits + 2 THEN <<q, r>>
    ELSE LET twice == BigTimes(r, 2, 0)
             bit   == BigGeq(twice, d)
         IN  LongDiv(IF bit THEN BigMinus(twice, d) ELSE twice, d,
                     BigTimes(q, 2, IF bit THEN 1 ELSE 0))

\* x / y for floats x >= 0 and y > 0
FloatDiv(x, y) ==
    IF x.m = <<>> THEN Float(<<>>, 0)
    ELSE LET a  == BigBitLen(x.m)
             d  == BigBitLen(y.m)
             sx == IF d > a THEN d - a ELSE 0
             sy == IF a > d THEN a - d ELSE 0
             \* significands aligned to the same length, then 1 <= top/den < 2
             num   == BigShl(x.m, sx)
             den   == BigShl(y.m, sy)
             extra == IF BigGeq(num, den) THEN 0 ELSE 1
             top   == BigShl(num, extra)
             qr    == LongDiv(BigMinus(top, den), den, <<1>>)
         IN  RoundToDouble(qr[1],
                           x.e - y.e + sy - sx - extra - (DoubleBits + 1),
                           qr[2] # <<>>)

\* n * x for an integer 0 <= n < 2 * LimbBase and a float x >= 0
FloatTimesInt(n, x) == RoundToDouble(BigStrip(BigTimes(x.m, n, 0)), x.e, FALSE)

\* int(x) for a float x >= 0 below 2^31
IntOfFloat(x) ==
    IF x.e >= 0 THEN BigToInt(BigShl(x.m, x.e)) ELSE BigToInt(BigShr(x.m, -x.e))

----------------------------------------------------------------------------
(* AudioFile.resample *)

\* Bound of resample's input buffers
MaxResampleLen == 11

\* src_index - src_floor is kept to FracBits binary places
FracBits == 10
FracUnit == 1024

\* ratio = target_rate / self.sample_rate (sample_rate > 0)
Ratio(target, rate) == FloatDiv(FloatOf(target), FloatOf(rate))

\* new_length = int(len(self.audio_data) * ratio)
NewLength(len, ratio) == IntOfFloat(FloatTimesInt(len, ratio))

\* src_index = i / ratio
SrcIndex(i, ratio) == FloatDiv(FloatOf(i), ratio)

\* src_floor = int(src_index)
SrcFloor(i, ratio) == IntOfFloat(SrcIndex(i, ratio))

\* src_ceil = min(src_floor + 1, len(self.audio_data) - 1)
SrcCeil(i, ratio, len) == Min(SrcFloor(i, ratio) + 1, len - 1)

\* fraction = src_index - src_floor, in units of 1/FracUnit, rounded down
Fraction(x) ==
    IF x.m = <<>> \/ x.e >= 0 THEN 0
    ELSE LET places == IF -x.e >= FracBits THEN BigShr(x.m, -x.e - FracBits)
                       ELSE BigShl(x.m, FracBits + x.e)
         IN  IF places = <<>> THEN 0 ELSE places[1] % FracUnit

\* audio_data[src_floor] * (1 - fraction) + audio_data[src_ceil] * fraction,
\* rounded down to the sample unit
Interpolate(data, i, ratio) ==
    LET fraction == Fraction(SrcIndex(i, ratio))
    IN  (data[SrcFloor(i, ratio) + 1] * (FracUnit - fraction)
         + data[SrcCeil(i, ratio, Len(data)) + 1] * fraction) \div FracUnit

\* self.resample(target_rate): what it returns or raises
resample(a, target) ==
    IF a.sample_rate = target THEN Returned(a)
    ELSE IF a.sample_rate = 0 THEN ZeroDivisionError
    ELSE LET ratio      == Ratio(target, a.sample_rate)
             len        == Len(a.audio_data)
             new_length == NewLength(len, ratio)
         IN  IF \E i \in 0..(new_length - 1) : SrcFloor(i, ratio) >= len
             THEN IndexError
             ELSE Returned(AudioFile(target,
                    [k \in 1..new_length |-> Interpolate(a.audio_data, k - 1, ratio)]))

\* Rates a decoded file may carry, and the rates asked for
ResampleRates == {0, 22050, 32340, 44100, 48000}
TargetRates == {8000, SAMPLE_RATE}

\* Input buffers: a rising ramp and a square wave of every length
Ramp(n) == [i \in 1..n |-> (i - 1) * (MixUnit \div MaxResampleLen)]
Square(n) == [i \in 1..n |-> IF i % 2 = 1 THEN MixUnit ELSE -MixUnit]

InitResample ==
    /\ op = "resample"
    /\ pc = "start"
    /\ self \in {AudioFile(r, d) : r \in ResampleRates,
                   d \in {Ramp(n) : n \in 0..MaxResampleLen}
                         \cup {Square(n) : n \in 0..MaxResampleLen}}
    /\ target_rate \in TargetRates
    /\ noise_paths = <<>> /\ snr_levels = <<>>
    /\ file = <<>> /\ fields = NoFields
    /\ result = NoResult
    /\ target_length = 0 /\ looped = <<>>
    /\ noise_type = "none" /\ duration = 0 /\ num_samples = 0
    /\ noise = <<>> /\ filt = <<0, 0, 0>> /\ last = 0
    /\ speech = NoBuffer /\ noise_in = NoBuffer /\ snr_db = 0

\* self.resample(target_rate)
Resample ==
    /\ pc = "start" /\ op = "resample"
    /\ result' = resample(self, target_rate)
    /\ pc' = "done"
    /\ UNCHANGED <<op, self, codecVars, xformVars, noiseVars, mixVars, resampleVars, pipeVars>>

NextResample == Resample

SpecResample == InitResample /\ [][NextResample]_vars

----------------------------------------------------------------------------
(* create_mixed_samples: from the decoded speech and noise files to the     *)
(* mixed files.  The files are taken as read_wav decoded them, samples in   *)
(* the mixer's unit; one step per call or loop iteration.                   *)

\* Bounds of the pipeline's inputs
MaxPipeLen == 2
MaxNoisePaths == 1

SNR_LEVELS == <<0, 5, 10, 15, 20>>

\* Sample values and rates of the decoded files
PipeSamples == {0, MixUnit \div 2}
PipeRates == {22050, SAMPLE_RATE, 48000}
Decoded == {AudioFile(r, d) : r \in PipeRates, d \in SeqsUpTo(PipeSamples, MaxPipeLen)}

\* An entry of noise_paths: the decoded content of a file that exists, or a
\* path with no file behind it
NoiseFile(a) == [exists |-> TRUE, sample_rate |-> a.sample_rate, audio_data |-> a.audio_data]
Missing == [exists |-> FALSE, sample_rate |-> 0, audio_data |-> <<>>]

\* create_mixed_samples ran to the end of its loops
ReturnedNone == [kind |-> "ok"]

\* A mixer sample as the float write_wav receives
SampleValue(v) == Rat(v, MixUnit)

InitPipe ==
    /\ op = "create_mixed_samples"
    /\ pc = "load_speech"
    /\ self \in Decoded
    /\ noise_paths \in {p \in SeqsUpTo({NoiseFile(a) : a \in Decoded} \cup {Missing},
                                       MaxNoisePaths) : p # <<>>}
    /\ snr_levels = <<>>
    /\ file = <<>> /\ fields = NoFields
    /\ result = NoResult
    /\ target_length = 0 /\ looped = <<>>
    /\ noise_type = "none" /\ duration = 0 /\ num_samples = 0
    /\ noise = <<>> /\ filt = <<0, 0, 0>> /\ last = 0
    /\ speech = NoBuffer /\ noise_in = NoBuffer /\ snr_db = 0
    /\ target_rate = SAMPLE_RATE

\* speech = AudioFile.read_wav(speech_path).resample(SAMPLE_RATE), trimmed to
\* max_length when longer
LoadSpeech ==
    /\ pc = "load_speech"
    /\ LET resampled  == resample(self, target_rate)
           max_length == SAMPLE_RATE * 10
       IN  IF resampled.kind # "ok"
           THEN /\ result' = resampled
                /\ pc' = "done"
                /\ UNCHANGED speech
           ELSE /\ speech' = IF Len(resampled.audio_data) > max_length
                             THEN trim_or_pad(AudioFile(resampled.sample_rate,
                                                        resampled.audio_data), max_length)
                             ELSE AudioFile(resampled.sample_rate, resampled.audio_data)
                /\ pc' = "next_noise"
                /\ UNCHANGED result
    /\ UNCHANGED <<op, self, codecVars, xformVars, noiseVars, noise_in, snr_db,
                   resampleVars, pipeVars>>

\* "if not os.path.exists(noise_path): continue"
SkipMissingNoise ==
    /\ pc = "next_noise"
    /\ noise_paths # <<>> /\ ~Head(noise_paths).exists
    /\ noise_paths' = Tail(noise_paths)
    /\ UNCHANGED <<pc, op, self, codecVars, result, xformVars, noiseVars, mixVars,
                   resampleVars, snr_levels>>

\* noise = AudioFile.read_wav(noise_path).resample(SAMPLE_RATE), and
\* noise.loop_to_length(len(speech.audio_data)) up to its while loop
LoadNoise ==
    /\ pc = "next_noise"
    /\ noise_paths # <<>> /\ Head(noise_paths).exists
    /\ LET resampled == resample(Head(noise_paths), target_rate)
           length    == Len(speech.audio_data)
       IN  IF resampled.kind # "ok"
           THEN /\ result' = resampled
                /\ pc' = "done"
                /\ UNCHANGED <<self, target_length, looped, noise_in, snr_levels>>
           ELSE /\ self' = AudioFile(resampled.sample_rate, resampled.audio_data)
                /\ target_length' = length
                /\ looped' = <<>>
                /\ IF Len(resampled.audio_data) >= length
                   THEN /\ noise_in' = AudioFile(resampled.sample_rate,
                                                 Take(resampled.audio_data, length))
                        /\ snr_levels' = SNR_LEVELS
                        /\ pc' = "mixing"
                   ELSE /\ pc' = "looping"
                        /\ UNCHANGED <<noise_in, snr_levels>>
                /\ UNCHANGED result
    /\ UNCHANGED <<op, codecVars, noiseVars, speech, snr_db, resampleVars, noise_paths>>

\* loop_to_length's loop exit and return, and the start of the SNR loop
NoiseLooped ==
    /\ pc = "looping" /\ op = "create_mixed_samples"
    /\ ~(Len(looped) < target_length)
    /\ noise_in' = AudioFile(self.sample_rate, looped)
    /\ snr_levels' = SNR_LEVELS
    /\ pc' = "mixing"
    /\ UNCHANGED <<op, self, codecVars, result, xformVars, noiseVars, speech, snr_db,
                   resampleVars, noise_paths>>

\* "if os.path.exists(output_path): continue"
SkipExisting ==
    /\ pc = "mixing"
    /\ snr_levels # <<>>
    /\ snr_db' = Head(snr_levels)
    /\ snr_levels' = Tail(snr_levels)
    /\ UNCHANGED <<pc, op, self, codecVars, result, xformVars, noiseVars, speech,
                   noise_in, resampleVars, noise_paths>>

\* mixed = mix_audio_with_snr(speech, noise, snr_db); mixed.write_wav(output_path)
MixAndWrite ==
    /\ pc = "mixing"
    /\ snr_levels # <<>>
    /\ snr_db' = Head(snr_levels)
    /\ snr_levels' = Tail(snr_levels)
    /\ LET mixed == mix_audio_with_snr(speech, noise_in, Head(snr_levels))
       IN  IF mixed.kind # "ok"
           THEN /\ result' = mixed
                /\ pc' = "done"
                /\ UNCHANGED file
           ELSE /\ file' = write_wav(AudioFile(mixed.sample_rate,
                               [i \in 1..Len(mixed.audio_data) |->
                                  SampleValue(mixed.audio_data[i])]))
                /\ UNCHANGED <<pc, result>>
    /\ UNCHANGED <<op, self, fields, xformVars, noiseVars, speech, noise_in,
                   resampleVars, noise_paths>>

\* The SNR loop's end: on to the next noise path
NoiseDone ==
    /\ pc = "mixing"
    /\ snr_levels = <<>>
    /\ noise_paths' = Tail(noise_paths)
    /\ pc' = "next_noise"
    /\ UNCHANGED <<op, self, codecVars, result, xformVars, noiseVars, mixVars,
                   resampleVars, snr_levels>>

\* The noise loop's end
Finish ==
    /\ pc = "next_noise"
    /\ noise_paths = <<>>
    /\ result' = ReturnedNone
    /\ pc' = "done"
    /\ UNCHANGED <<op, self, codecVars, xformVars, noiseVars, mixVars, resampleVars,
                   pipeVars>>

NextPipe ==
    \/ LoadSpeech \/ SkipMissingNoise \/ LoadNoise \/ LoopIterate \/ NoiseLooped
    \/ SkipExisting \/ MixAndWrite \/ NoiseDone \/ Finish

SpecPipe == InitPipe /\ [][NextPipe]_vars

----------------------------------------------------------------------------
(* Properties of the codec, checked under SpecCodec *)

\* A sample on the 16-bit grid: k/32768 for an integer k in -32768..32767
IsGridSample(x) == 32768 % x[2] = 0 /\ -x[2] <= x[1] /\ x[1] < x[2]

OnGrid(a) == \A i \in 1..Len(a.audio_data) : IsGridSample(a.audio_data[i])

\* The file has its three tags in place
TagsValid(fl) == fl.riff = TagRIFF /\ fl.wave = TagWAVE /\ fl.fmt = TagFmt

\* The file is whole and holds a data chunk
DataPresent(fl) == fl.has_data /\ fl.cut = Len(LayoutBytes(fl))

\* Offset of the data chunk's tag (of the end of the file when there is none)
DataOffset(fl) == 12 + Len(LayoutBytes([fl EXCEPT !.has_data = FALSE])) - 4

\* The same file without the chunks between fmt and data, whole
WithoutChunks(fl) ==
    LET bare == [fl EXCEPT !.chunks = 0]
    IN  LayoutFile([bare EXCEPT !.cut = Len(LayoutBytes(bare))])

\* C1: a buffer of grid samples written by write_wav and read back by read_wav
\* comes back with the same sample rate and the same samples.
C1_RoundTrip ==
    (pc = "done" /\ op = "round_trip" /\ OnGrid(self)) => result = Returned(self)

\* The 16-bit value stored at position i (from 1) of the data of the file
StoredPcm(i) == unpack_h(Read(file, 44 + 2 * (i - 1), 2))

\* The header of the file describes n mono 16-bit samples at the given rate
HeaderDescribes(n, rate) ==
    /\ Read(file, 0, 4) = TagRIFF
    /\ unpack_I(Read(file, 4, 4)) = 36 + 2 * n
    /\ Read(file, 8, 4) = TagWAVE
    /\ Read(file, 12, 4) = TagFmt
    /\ unpack_I(Read(file, 16, 4)) = 16
    /\ unpack_H(Read(file, 20, 2)) = 1
    /\ unpack_H(Read(file, 22, 2)) = 1
    /\ unpack_I(Read(file, 24, 4)) = rate
    /\ unpack_I(Read(file, 28, 4)) = 2 * rate
    /\ unpack_H(Read(file, 32, 2)) = 2
    /\ unpack_H(Read(file, 34, 2)) = 16
    /\ Read(file, 36, 4) = TagData
    /\ unpack_I(Read(file, 40, 4)) = 2 * n

\* Every sample of the buffer is 0.0
Silent(data) == \A i \in 1..Len(data) : data[i] = <<0, 1>>

\* C11: the file written by write_wav or write_wav_file for N samples has
\* 44 + 2N bytes: RIFF size 36 + 2N, fmt size 16, format 1, one channel, the
\* sample rate, byte rate twice the rate, block align 2, 16 bits, data size 2N,
\* then N signed 16-bit values in [-32767, 32767]; read back it gives N samples
\* at the same rate, and a buffer of zeros comes back as zeros.
C11_EncodedLayout ==
    (pc \in {"written", "done"} /\ op \in {"round_trip", "write_wav_file"})
    => LET n == Len(self.audio_data)
       IN  /\ Len(file) = 44 + 2 * n
           /\ HeaderDescribes(n, self.sample_rate)
           /\ \A i \in 1..n : StoredPcm(i) \in -32767..32767
           /\ pc = "done" =>
                 /\ result.kind = "ok"
                 /\ result.sample_rate = self.sample_rate
                 /\ Len(result.audio_data) = n
                 /\ Silent(self.audio_data) => Silent(result.audio_data)

\* A case of C11: write_wav_file's file read back, written from a full buffer
\* holding a sample above 1.0 and one below -1.0, stored as 32767 and -32767
C11_Witness ==
    /\ pc = "done" /\ op = "write_wav_file"
    /\ Len(self.audio_data) = MaxCodecSamples
    /\ \E i, j \in 1..Len(self.audio_data) :
          /\ self.audio_data[i] = <<3, 2>> /\ StoredPcm(i) = 32767
          /\ self.audio_data[j] = <<-2, 1>> /\ StoredPcm(j) = -32767
    /\ result.kind = "ok"

\* C5: a file with valid tags and a data chunk whose bits-per-sample field is
\* not 16 makes read_wav fail with ValueError "Unsupported bits per sample".
C5_UnsupportedBitDepth ==
    (pc = "done" /\ op = "read_wav" /\ TagsValid(fields) /\ DataPresent(fields)
        /\ fields.bits_per_sample # 16)
    => result = ValueError("Unsupported bits per sample")

\* C6: a file that ends, after its fmt fields, before any data tag is complete
\* makes read_wav fail with ValueError "data subchunk not found"; and a whole
\* file whose data chunk follows other chunks decodes as it does without them.
C6_DataChunkDiscovery ==
    (pc = "done" /\ op = "read_wav" /\ TagsValid(fields) /\ fields.cut >= 36)
    => /\ (~fields.has_data \/ fields.cut < DataOffset(fields) + 4)
            => result = ValueError("data subchunk not found")
       /\ DataPresent(fields) => result = read_wav(WithoutChunks(fields))

\* C7: read_wav returns no buffer for a file whose audio-format code is not 1.
C7_AudioFormatChecked ==
    (pc = "done" /\ op = "read_wav" /\ fields.audio_format # 1) => result.kind # "ok"

----------------------------------------------------------------------------
(* Properties of the transforms, checked under SpecXform *)

\* C2: trim_or_pad(n) and loop_to_length(n) complete (a call that has not
\* returned can still take a step that changes its state) and return a buffer
\* of exactly n samples.
C2_LengthInvariant ==
    /\ pc = "done" => (result.kind = "ok" /\ Len(result.audio_data) = target_length)
    /\ pc = "done" \/ ENABLED <<NextXform>>_vars

\* C9: loop_to_length(n) on a non-empty buffer b keeps the sample rate; for
\* n > len(b) sample i of the result is b[i mod len(b)], for n <= len(b) the
\* result is the first n samples of b.
C9_LoopCorrectness ==
    (pc = "done" /\ op = "loop_to_length" /\ Len(self.audio_data) > 0)
    => LET b == self.audio_data
       IN  /\ result.kind = "ok"
           /\ result.sample_rate = self.sample_rate
           /\ IF target_length > Len(b)
              THEN /\ Len(result.audio_data) = target_length
                   /\ \A i \in 0..(target_length - 1) :
                         result.audio_data[i + 1] = b[(i % Len(b)) + 1]
              ELSE result.audio_data = SubSeq(b, 1, target_length)

\* A loop that went round more than twice and ended on a proper prefix of a
\* buffer whose samples differ
C9_Witness ==
    /\ pc = "done" /\ op = "loop_to_length"
    /\ Len(self.audio_data) >= 2
    /\ self.audio_data[1] # self.audio_data[2]
    /\ target_length > 2 * Len(self.audio_data)
    /\ target_length % Len(self.audio_data) # 0
    /\ Len(result.audio_data) = target_length

----------------------------------------------------------------------------
(* Properties of the noise synthesizer, checked under SpecNoise *)

\* C3: every sample of the buffer generate_noise returns lies in [-1.0, 1.0].
C3_NoiseBounds ==
    (pc = "done" /\ result.kind = "ok")
    => \A i \in 1..Len(result.audio_data) :
          -NoiseUnit <= result.audio_data[i] /\ result.audio_data[i] <= NoiseUnit

\* C10 as stated: the buffer has round(duration * rate) samples, at the rate.
C10_RoundedCount ==
    (pc = "done" /\ noise_type \in {"white", "pink", "brown"})
    => /\ result.kind = "ok"
       /\ Len(result.audio_data) = NumSamplesRounded(duration)
       /\ result.sample_rate = SAMPLE_RATE

\* C10 as amended: the buffer has int(SAMPLE_RATE * duration) samples, the
\* product truncated, at SAMPLE_RATE.
C10_TruncatedCount ==
    (pc = "done" /\ noise_type \in {"white", "pink", "brown"})
    => /\ result.kind = "ok"
       /\ Len(result.audio_data) = (SAMPLE_RATE * duration) \div DurationDen
       /\ result.sample_rate = SAMPLE_RATE

\* A returned buffer of several samples for a duration whose product with the
\* rate rounds up
C10_Witness ==
    /\ pc = "done" /\ result.kind = "ok"
    /\ 2 * ((SAMPLE_RATE * duration) % DurationDen) > DurationDen
    /\ Len(result.audio_data) >= 2

----------------------------------------------------------------------------
(* Properties of the mixer, checked under SpecMix *)

EqualLength == Len(speech.audio_data) = Len(noise_in.audio_data)

AllZero(data) == \A i \in 1..Len(data) : data[i] = 0

\* The noise scale of the call under way
ScaleOfCall ==
    NoiseScale(Rms(speech.audio_data), Rms(noise_in.audio_data), SnrLinear(snr_db))

\* C4: every sample of the buffer mix_audio_with_snr returns for equal-length,
\* non-empty buffers lies in [-1.0, 1.0].
C4_Clipping ==
    (pc = "done" /\ EqualLength /\ Len(speech.audio_data) > 0 /\ result.kind = "ok")
    => \A i \in 1..Len(result.audio_data) :
          -MixUnit <= result.audio_data[i] /\ result.audio_data[i] <= MixUnit

\* A mix whose sum left the range on both sides and came back clipped
C4_Witness ==
    /\ pc = "done" /\ EqualLength /\ result.kind = "ok"
    /\ \E i \in 1..Len(speech.audio_data) :
          /\ MixedSample(speech.audio_data[i], noise_in.audio_data[i], ScaleOfCall) > MixUnit
          /\ result.audio_data[i] = MixUnit
    /\ \E j \in 1..Len(speech.audio_data) :
          /\ MixedSample(speech.audio_data[j], noise_in.audio_data[j], ScaleOfCall) < -MixUnit
          /\ result.audio_data[j] = -MixUnit

\* C8: for equal-length buffers the mix never fails with a division by zero,
\* and with all-zero noise (or empty buffers) it returns the clipped speech.
C8_ZeroScaleFallback ==
    (pc = "done" /\ EqualLength)
    => /\ result.kind # "ZeroDivisionError"
       /\ AllZero(noise_in.audio_data)
            => result = Returned(AudioFile(speech.sample_rate,
                          [i \in 1..Len(speech.audio_data) |-> Clip(speech.audio_data[i])]))

----------------------------------------------------------------------------
(* Properties of resample, checked under SpecResample *)

\* C12: for a buffer of L samples and a positive target rate other than the
\* source rate, resample returns a buffer at the target rate with exactly
\* floor(L * target_rate / sample_rate) samples, and for every output index
\* the two source indices it reads lie in [0, L - 1]; an empty buffer gives an
\* empty buffer.
C12_ResampledLength ==
    (pc = "done" /\ op = "resample" /\ self.sample_rate > 0
        /\ target_rate > 0 /\ target_rate # self.sample_rate)
    => LET len   == Len(self.audio_data)
           ratio == Ratio(target_rate, self.sample_rate)
       IN  /\ result.kind = "ok"
           /\ result.sample_rate = target_rate
           /\ Len(result.audio_data) = (len * target_rate) \div self.sample_rate
           /\ \A i \in 0..(Len(result.audio_data) - 1) :
                 /\ SrcFloor(i, ratio) \in 0..(len - 1)
                 /\ SrcCeil(i, ratio, len) \in 0..(len - 1)
           /\ len = 0 => result.audio_data = <<>>

----------------------------------------------------------------------------
(* Properties of create_mixed_samples, checked under SpecPipe *)

\* C13: for every decoded speech and noise file, of any lengths and rates,
\* the preparation (resample, trim, loop_to_length to the speech's length)
\* completes, every mix is called on buffers of equal length at SAMPLE_RATE,
\* and no call fails: inside loop_to_length's loop the run can always move on
\* to a different state, and nothing is raised.
C13_PipelineCompletes ==
    op = "create_mixed_samples"
    => /\ pc = "looping" => ENABLED <<NextPipe>>_vars
       /\ result.kind \in {"none", "ok"}
       /\ pc = "mixing" =>
             /\ Len(speech.audio_data) = Len(noise_in.audio_data)
             /\ speech.sample_rate = SAMPLE_RATE
             /\ noise_in.sample_rate = SAMPLE_RATE

====
